---- MODULE Spec2Model ----
(***************************************************************************)
(* The worker pool of Go/GoSample/main.go: demonstrateWorkerPool (the      *)
(* main goroutine: starts the workers, sends the jobs, closes the job      *)
(* channel, spawns the closing goroutine, ranges over the results), the    *)
(* worker goroutines, and the anonymous goroutine that waits on the        *)
(* WaitGroup and closes the results channel.                               *)
(*                                                                         *)
(* The source fixes numWorkers = 3 and numJobs = 9; the model takes both   *)
(* as values chosen at Init, so that statements "for every N and M" are    *)
(* checked over a range of pool sizes.                                     *)
(*                                                                         *)
(* Two further specifications share the module: CounterSpec, the           *)
(* thread-based ThreadSafeCounter section of the Rust sample, and GoSpec,   *)
(* the Go main goroutine with demonstrateSelect, demonstrateDefer and      *)
(* demonstratePanicRecover.  Each specification holds the variables of the *)
(* other programs at their initial values.                                 *)
(***************************************************************************)
EXTENDS Integers, Sequences, FiniteSets, TLC

\* Largest worker count and largest batch the model explores.
MaxWorkers == 3
MaxJobs == 2
\* Largest worker count explored for batches with repeated job values.
MaxDupWorkers == 2
\* Largest thread count and increments per thread explored for the Rust counter.
MaxThreads == 3
MaxIncrements == 2

VARIABLES
    numWorkers,     \* const numWorkers
    numJobs,        \* const numJobs
    faulty,         \* the jobs whose computation faults (none in the source)
    batch,          \* batch[k]: the value sent as the k-th job (k in the source)
    cancelled,      \* an external cancellation was signalled (the source has none)
    pcMain,         \* next statement of demonstrateWorkerPool
    w,              \* loop variable of the worker-start loop
    j,              \* loop variable of the job-send loop
    jobs,           \* buffer of the jobs channel
    jobsClosed,     \* the jobs channel has been closed
    results,        \* buffer of the results channel
    resultsClosed,  \* the results channel has been closed
    wg,             \* counter of the sync.WaitGroup
    wpc,            \* wpc[i]: next statement of worker i
    job,            \* job[i]: the loop variable "job" of worker i (0: none)
    pcCloser,       \* next statement of the anonymous closing goroutine
    received,       \* the results printed by the consumer loop, in order
    claimLog,       \* history: <<worker, job>> for every receive from jobs
    closeCount,     \* history: number of close(results) operations executed
    jobsCloseCount, \* history: number of close(jobs) operations executed
    crashed         \* the process was terminated by an unrecovered panic

\* The thread-based counter section of the Rust sample's main
\* (src/unnamed/part_002).
VARIABLES
    numThreads,     \* number of spawned threads (5 in the source)
    numIncrements,  \* increments per thread (10 in the source)
    value,          \* the i32 inside the Mutex
    lockedBy,       \* owner of the Mutex: 0 free, t thread t, -1 main
    tpc,            \* tpc[t]: next statement of thread t
    iter,           \* iter[t]: completed iterations of thread t's loop
    count,          \* count[t]: the value thread t read through its guard
    rpc,            \* next statement of the Rust main in this section
    spawned,        \* number of handles pushed
    joined,         \* number of handles joined
    finalValue      \* the value returned by counter.get_value() (-1: not yet)

\* The main goroutine of the Go sample and the demonstrations it calls:
\* demonstrateSelect, demonstrateDefer and demonstratePanicRecover.
VARIABLES
    mainAt,         \* index of the demonstration main is calling or about to call
    fpc,            \* next statement of the running demonstration ("call": none runs)
    out,            \* standard output: [by |-> function, line |-> text], in order
    deferred,       \* deferred calls of the running function, last deferred first
    loopI,          \* the loop variable i of the running function
    file,           \* the variable file of demonstrateDefer
    panicking,      \* value of the panic in progress, NoPanic if none
    aborted,        \* the process was terminated by an unrecovered panic
    now,            \* milliseconds since main started
    sleepMs,        \* sleepMs[k]: duration of time.Sleep in sender goroutine k
    timeoutMs,      \* duration given to time.After
    spc,            \* spc[k]: next statement of sender goroutine k
    wake,           \* wake[k]: when the time.Sleep of sender k returns
    timerAt         \* when the channel of the current time.After becomes ready

poolVars == <<numWorkers, numJobs, faulty, batch, cancelled, jobsCloseCount, pcMain, w, j, jobs, jobsClosed, results,
          resultsClosed, wg, wpc, job, pcCloser, received, claimLog,
          closeCount, crashed>>

counterVars == <<numThreads, numIncrements, value, lockedBy, tpc, iter, count,
                 rpc, spawned, joined, finalValue>>

goVars == <<mainAt, fpc, out, deferred, loopI, file, panicking, aborted, now,
            sleepMs, timeoutMs, spc, wake, timerAt>>

\* What the worker pool leaves alone.
otherThanPool == <<counterVars, goVars>>
\* What the Rust counter section leaves alone.
otherThanCounter == <<poolVars, goVars>>
\* What the Go main and its demonstrations leave alone.
otherThanGo == <<poolVars, counterVars>>

vars == <<poolVars, counterVars, goVars>>

Threads == 1..numThreads

\* State at the start of the counter section: ThreadSafeCounter::new(), no
\* thread spawned.
InitCounterOf(T, K) ==
    /\ numThreads = T
    /\ numIncrements = K
    /\ value = 0
    /\ lockedBy = 0
    /\ tpc = [t \in 1..T |-> "unspawned"]
    /\ iter = [t \in 1..T |-> 0]
    /\ count = [t \in 1..T |-> 0]
    /\ rpc = IF T > 0 THEN "spawn" ELSE "get"
    /\ spawned = 0
    /\ joined = 0
    /\ finalValue = -1

\* The Rust counter section, not running.
CounterIdle == InitCounterOf(0, 0)

\* time.Sleep(100 * time.Millisecond), time.Sleep(200 * time.Millisecond) and
\* time.After(300 * time.Millisecond) in demonstrateSelect
Sleep1Ms == 100
Sleep2Ms == 200
TimeoutMs == 300
\* for i := 0; i < 2; i++ in demonstrateSelect
SelectRounds == 2
\* for i := 0; i < 3; i++ in demonstrateDefer
DeferLoopCount == 3

\* The two sender goroutines of demonstrateSelect.
Senders == 1..2

NoPanic == ""

\* State when main reaches its calls of the demonstrations, for senders that
\* sleep S[1] and S[2] milliseconds and a select timeout of T milliseconds.
InitGoOf(S, T) ==
    /\ mainAt = 1
    /\ fpc = "call"
    /\ out = <<>>
    /\ deferred = <<>>
    /\ loopI = 0
    /\ file = ""
    /\ panicking = NoPanic
    /\ aborted = FALSE
    /\ now = 0
    /\ sleepMs = S
    /\ timeoutMs = T
    /\ spc = [k \in Senders |-> "unstarted"]
    /\ wake = [k \in Senders |-> 0]
    /\ timerAt = 0

\* The Go main, not running.
GoIdle == InitGoOf(<<Sleep1Ms, Sleep2Ms>>, TimeoutMs)

\* The programs other than the worker pool, not running.
OthersIdle == CounterIdle /\ GoIdle

Workers == 1..numWorkers
Jobs == 1..numJobs

\* Variant of ChanCap: the channels are made one slot smaller than the batch.
ChanCapOneLess == numJobs - 1

\* make(chan int, numJobs): both channels have capacity numJobs.  With
\* numJobs = 0 they are unbuffered, and no send is ever executed on them.
ChanCap == numJobs

\* Variant of ChanSend: the new value is put at the front (a stack, not a queue).
ChanSendFront(ch, v) == <<v>> \o ch

\* A buffered channel delivers in FIFO order: send appends, receive takes the head.
ChanSend(ch, v) == Append(ch, v)
ChanHead(ch) == Head(ch)
ChanRest(ch) == Tail(ch)

\* Variant of Compute: the result is job + 2.
ComputePlusTwo(x) == x + 2

\* The worker's computation: results <- job * 2
Compute(x) == x * 2

\* Where main continues after the job-send loop variable has become jn.
AfterJobLoop(jn) == IF jn <= numJobs THEN "sendJob" ELSE "closeJobs"
\* Where main continues after the worker-start loop variable has become wn.
AfterWorkerLoop(wn) == IF wn <= numWorkers THEN "wgAdd" ELSE AfterJobLoop(1)

\* for j := 1; j <= numJobs; j++ { jobs <- j }: the k-th job sent is k
DemoBatch == [k \in Jobs |-> k]

PoolStart ==
    /\ pcMain = AfterWorkerLoop(1)
    /\ w = 1
    /\ j = 1
    /\ jobs = <<>>
    /\ jobsClosed = FALSE
    /\ results = <<>>
    /\ resultsClosed = FALSE
    /\ wg = 0
    /\ wpc = [i \in Workers |-> "unstarted"]
    /\ job = [i \in Workers |-> 0]
    /\ pcCloser = "unstarted"
    /\ received = <<>>
    /\ claimLog = <<>>
    /\ closeCount = 0
    /\ jobsCloseCount = 0
    /\ cancelled = FALSE
    /\ crashed = FALSE

InitPool == PoolStart /\ OthersIdle

\* The worker pool, not running.
PoolIdle ==
    /\ numWorkers = 0
    /\ numJobs = 0
    /\ faulty = {}
    /\ batch = DemoBatch
    /\ PoolStart

Init ==
    /\ numWorkers \in -1..MaxWorkers
    /\ numJobs \in 0..MaxJobs
    /\ faulty = {}
    /\ batch = DemoBatch
    /\ InitPool

-----------------------------------------------------------------------------
(* demonstrateWorkerPool, the main goroutine *)

\* Variant of WgAdd: wg.Add(1) is not executed before the go statement.
WgAddMissing ==
    /\ ~crashed
    /\ pcMain = "wgAdd"
    /\ pcMain' = "goWorker"
    /\ UNCHANGED <<otherThanPool, numWorkers, numJobs, faulty, batch, cancelled, jobsCloseCount,
                   w, j, jobs, jobsClosed, results, wg,
                   resultsClosed, wpc, job, pcCloser, received, claimLog,
                   closeCount, crashed>>

\* Variant of WgAdd: wg.Add(numWorkers) is called on every iteration.
WgAddAll ==
    /\ ~crashed
    /\ pcMain = "wgAdd"
    /\ wg' = wg + numWorkers
    /\ pcMain' = "goWorker"
    /\ UNCHANGED <<otherThanPool, numWorkers, numJobs, faulty, batch, cancelled, jobsCloseCount,
                   w, j, jobs, jobsClosed, results,
                   resultsClosed, wpc, job, pcCloser, received, claimLog,
                   closeCount, crashed>>

\* wg.Add(1)
WgAdd ==
    /\ ~crashed
    /\ pcMain = "wgAdd"
    /\ wg' = wg + 1
    /\ pcMain' = "goWorker"
    /\ UNCHANGED <<otherThanPool, numWorkers, numJobs, faulty, batch, cancelled, jobsCloseCount,
                   w, j, jobs, jobsClosed, results,
                   resultsClosed, wpc, job, pcCloser, received, claimLog,
                   closeCount, crashed>>

\* go worker(w, jobs, results, &wg); w++
GoWorker ==
    /\ ~crashed
    /\ pcMain = "goWorker"
    /\ wpc' = [wpc EXCEPT ![w] = "range"]
    /\ w' = w + 1
    /\ pcMain' = AfterWorkerLoop(w + 1)
    /\ UNCHANGED <<otherThanPool, numWorkers, numJobs, faulty, batch, cancelled, jobsCloseCount,
                   j, jobs, jobsClosed, results,
                   resultsClosed, wg, job, pcCloser, received, claimLog,
                   closeCount, crashed>>

\* Variant of SendJob: close(jobs) is inside the send loop, after the send.
SendJobClosing ==
    /\ ~crashed
    /\ pcMain = "sendJob"
    /\ IF jobsClosed
       THEN /\ crashed' = TRUE
            /\ UNCHANGED <<jobs, j, pcMain, jobsClosed, jobsCloseCount>>
       ELSE /\ Len(jobs) < ChanCap
            /\ jobs' = ChanSend(jobs, batch[j])
            /\ jobsClosed' = TRUE
            /\ jobsCloseCount' = jobsCloseCount + 1
            /\ j' = j + 1
            /\ pcMain' = AfterJobLoop(j + 1)
            /\ UNCHANGED crashed
    /\ UNCHANGED <<otherThanPool, numWorkers, numJobs, faulty, batch, cancelled,
                   w, results,
                   resultsClosed, wg, wpc, job, pcCloser, received, claimLog,
                   closeCount>>

\* jobs <- j; j++   (blocks while the buffer is full; a send on a closed
\* channel panics in the main goroutine, which ends the program)
SendJob ==
    /\ ~crashed
    /\ pcMain = "sendJob"
    /\ IF jobsClosed
       THEN /\ crashed' = TRUE
            /\ UNCHANGED <<jobs, j, pcMain>>
       ELSE /\ Len(jobs) < ChanCap
            /\ jobs' = ChanSend(jobs, batch[j])
            /\ j' = j + 1
            /\ pcMain' = AfterJobLoop(j + 1)
            /\ UNCHANGED crashed
    /\ UNCHANGED <<otherThanPool, numWorkers, numJobs, faulty, batch, cancelled, jobsCloseCount,
                   w, jobsClosed, results,
                   resultsClosed, wg, wpc, job, pcCloser, received, claimLog,
                   closeCount>>

\* Variant of CloseJobs: the close(jobs) statement is missing.
CloseJobsMissing ==
    /\ ~crashed
    /\ pcMain = "closeJobs"
    /\ pcMain' = "goCloser"
    /\ UNCHANGED <<otherThanPool, numWorkers, numJobs, faulty, batch, cancelled, jobsCloseCount,
                   w, j, jobs, jobsClosed, results,
                   resultsClosed, wg, wpc, job, pcCloser, received, claimLog,
                   closeCount, crashed>>

\* close(jobs)   (closing a closed channel panics)
CloseJobs ==
    /\ ~crashed
    /\ pcMain = "closeJobs"
    /\ jobsCloseCount' = jobsCloseCount + 1
    /\ IF jobsClosed
       THEN /\ crashed' = TRUE
            /\ UNCHANGED <<jobsClosed, pcMain>>
       ELSE /\ jobsClosed' = TRUE
            /\ pcMain' = "goCloser"
            /\ UNCHANGED crashed
    /\ UNCHANGED <<otherThanPool, numWorkers, numJobs, faulty, batch, cancelled,
                   w, j, jobs, results,
                   resultsClosed, wg, wpc, job, pcCloser, received, claimLog,
                   closeCount>>

\* go func() { wg.Wait(); close(results) }()
GoCloser ==
    /\ ~crashed
    /\ pcMain = "goCloser"
    /\ pcCloser' = "wait"
    /\ pcMain' = "rangeResults"
    /\ UNCHANGED <<otherThanPool, numWorkers, numJobs, faulty, batch, cancelled, jobsCloseCount,
                   w, j, jobs, jobsClosed, results,
                   resultsClosed, wg, wpc, job, received, claimLog,
                   closeCount, crashed>>

\* for result := range results { fmt.Printf("Result: %d\n", result) }
ConsumeResult ==
    /\ ~crashed
    /\ pcMain = "rangeResults"
    /\ results # <<>>
    /\ received' = Append(received, ChanHead(results))
    /\ results' = ChanRest(results)
    /\ UNCHANGED <<otherThanPool, numWorkers, numJobs, faulty, batch, cancelled, jobsCloseCount,
                   pcMain, w, j, jobs, jobsClosed,
                   resultsClosed, wg, wpc, job, pcCloser, claimLog,
                   closeCount, crashed>>

\* Variant of ConsumeEnd: the consumer counts numJobs receives instead of
\* ranging until the channel is closed.
ConsumeEndCounting ==
    /\ ~crashed
    /\ pcMain = "rangeResults"
    /\ Len(received) = numJobs
    /\ pcMain' = "done"
    /\ UNCHANGED <<otherThanPool, numWorkers, numJobs, faulty, batch, cancelled, jobsCloseCount,
                   w, j, jobs, jobsClosed, results,
                   resultsClosed, wg, wpc, job, pcCloser, received, claimLog,
                   closeCount, crashed>>

\* the range loop ends when results is closed and drained
ConsumeEnd ==
    /\ ~crashed
    /\ pcMain = "rangeResults"
    /\ results = <<>>
    /\ resultsClosed
    /\ pcMain' = "done"
    /\ UNCHANGED <<otherThanPool, numWorkers, numJobs, faulty, batch, cancelled, jobsCloseCount,
                   w, j, jobs, jobsClosed, results,
                   resultsClosed, wg, wpc, job, pcCloser, received, claimLog,
                   closeCount, crashed>>

-----------------------------------------------------------------------------
(* worker(id, jobs, results, wg) *)

\* Variant of WorkerClaim: the worker reads the head of the queue without
\* removing it.
WorkerClaimPeek(i) ==
    /\ ~crashed
    /\ wpc[i] = "range"
    /\ jobs # <<>>
    /\ job' = [job EXCEPT ![i] = ChanHead(jobs)]
    /\ claimLog' = Append(claimLog, <<i, ChanHead(jobs)>>)
    /\ wpc' = [wpc EXCEPT ![i] = "work"]
    /\ UNCHANGED <<otherThanPool, numWorkers, numJobs, faulty, batch, cancelled, jobsCloseCount,
                   pcMain, w, j, jobs, jobsClosed,
                   results, resultsClosed, wg, pcCloser, received,
                   closeCount, crashed>>

\* Variant of WorkerClaim: a worker that is still processing a job already
\* takes the next one from the queue.
WorkerClaimEager(i) ==
    /\ ~crashed
    /\ wpc[i] \in {"range", "work"}
    /\ jobs # <<>>
    /\ job' = [job EXCEPT ![i] = ChanHead(jobs)]
    /\ jobs' = ChanRest(jobs)
    /\ claimLog' = Append(claimLog, <<i, ChanHead(jobs)>>)
    /\ wpc' = [wpc EXCEPT ![i] = "work"]
    /\ UNCHANGED <<otherThanPool, numWorkers, numJobs, faulty, batch, cancelled, jobsCloseCount,
                   pcMain, w, j, jobsClosed, results, resultsClosed, wg,
                   pcCloser, received, closeCount, crashed>>

\* Variant of WorkerClaim: a job value that some worker has already received
\* is taken from the queue and skipped.
WorkerClaimDedup(i) ==
    /\ ~crashed
    /\ wpc[i] = "range"
    /\ jobs # <<>>
    /\ jobs' = ChanRest(jobs)
    /\ IF \E k \in 1..Len(claimLog) : claimLog[k][2] = ChanHead(jobs)
       THEN UNCHANGED <<job, claimLog, wpc>>
       ELSE /\ job' = [job EXCEPT ![i] = ChanHead(jobs)]
            /\ claimLog' = Append(claimLog, <<i, ChanHead(jobs)>>)
            /\ wpc' = [wpc EXCEPT ![i] = "work"]
    /\ UNCHANGED <<otherThanPool, numWorkers, numJobs, faulty, batch, cancelled, jobsCloseCount,
                   pcMain, w, j, jobsClosed, results, resultsClosed, wg,
                   pcCloser, received, closeCount, crashed>>

\* for job := range jobs: a value is received from the jobs channel
WorkerClaim(i) ==
    /\ ~crashed
    /\ wpc[i] = "range"
    /\ jobs # <<>>
    /\ job' = [job EXCEPT ![i] = ChanHead(jobs)]
    /\ jobs' = ChanRest(jobs)
    /\ claimLog' = Append(claimLog, <<i, ChanHead(jobs)>>)
    /\ wpc' = [wpc EXCEPT ![i] = "work"]
    /\ UNCHANGED <<otherThanPool, numWorkers, numJobs, faulty, batch, cancelled, jobsCloseCount,
                   pcMain, w, j, jobsClosed,
                   results, resultsClosed, wg, pcCloser, received,
                   closeCount, crashed>>

\* fmt.Printf("Worker %d processing job %d\n"); time.Sleep(...)
WorkerProcess(i) ==
    /\ ~crashed
    /\ wpc[i] = "work"
    /\ job[i] \notin faulty
    /\ wpc' = [wpc EXCEPT ![i] = "publish"]
    /\ UNCHANGED <<otherThanPool, numWorkers, numJobs, faulty, batch, cancelled, jobsCloseCount,
                   pcMain, w, j, jobs, jobsClosed,
                   results, resultsClosed, wg, job, pcCloser, received,
                   claimLog, closeCount, crashed>>

\* Variant of WorkerPublish: the worker loops without sending its result.
WorkerPublishDrop(i) ==
    /\ ~crashed
    /\ wpc[i] = "publish"
    /\ wpc' = [wpc EXCEPT ![i] = "range"]
    /\ UNCHANGED <<otherThanPool, numWorkers, numJobs, faulty, batch, cancelled, jobsCloseCount,
                   pcMain, w, j, jobs, jobsClosed,
                   results, resultsClosed, wg, job, pcCloser, received,
                   claimLog, closeCount, crashed>>

\* results <- job * 2   (blocks while the buffer is full; a send on a closed
\* channel panics, and the panic unwinds the worker through its defer)
WorkerPublish(i) ==
    /\ ~crashed
    /\ wpc[i] = "publish"
    /\ IF resultsClosed
       THEN /\ wpc' = [wpc EXCEPT ![i] = "panicking"]
            /\ UNCHANGED results
       ELSE /\ Len(results) < ChanCap
            /\ results' = ChanSend(results, Compute(job[i]))
            /\ wpc' = [wpc EXCEPT ![i] = "range"]
    /\ UNCHANGED <<otherThanPool, numWorkers, numJobs, faulty, batch, cancelled, jobsCloseCount,
                   pcMain, w, j, jobs, jobsClosed,
                   resultsClosed, wg, job, pcCloser, received, claimLog,
                   closeCount, crashed>>

\* Variant of WorkerExit: the worker returns as soon as it finds the queue
\* empty, closed or not.
WorkerExitOnEmpty(i) ==
    /\ ~crashed
    /\ wpc[i] = "range"
    /\ jobs = <<>>
    /\ wpc' = [wpc EXCEPT ![i] = "deferred"]
    /\ UNCHANGED <<otherThanPool, numWorkers, numJobs, faulty, batch, cancelled, jobsCloseCount,
                   pcMain, w, j, jobs, jobsClosed, results, resultsClosed, wg,
                   job, pcCloser, received, claimLog, closeCount, crashed>>

\* the range loop ends when jobs is closed and drained
WorkerExit(i) ==
    /\ ~crashed
    /\ wpc[i] = "range"
    /\ jobs = <<>>
    /\ jobsClosed
    /\ wpc' = [wpc EXCEPT ![i] = "deferred"]
    /\ UNCHANGED <<otherThanPool, numWorkers, numJobs, faulty, batch, cancelled, jobsCloseCount,
                   pcMain, w, j, jobs, jobsClosed,
                   results, resultsClosed, wg, job, pcCloser, received,
                   claimLog, closeCount, crashed>>

\* Variant of WorkerDone: every worker also closes the results channel when it
\* returns.
WorkerDoneClosing(i) ==
    /\ ~crashed
    /\ wpc[i] \in {"deferred", "panicking"}
    /\ wg' = wg - 1
    /\ closeCount' = closeCount + 1
    /\ resultsClosed' = TRUE
    /\ wpc' = [wpc EXCEPT ![i] = IF wpc[i] = "deferred" THEN "exited" ELSE "dying"]
    /\ UNCHANGED <<otherThanPool, numWorkers, numJobs, faulty, batch, cancelled, jobsCloseCount,
                   pcMain, w, j, jobs, jobsClosed,
                   results, job, pcCloser, received, claimLog, crashed>>

\* Variant of WorkerDone: wg.Done() is the last statement of the function
\* instead of a deferred call, so a panic unwinds past it.
WorkerDoneNotDeferred(i) ==
    /\ ~crashed
    /\ wpc[i] \in {"deferred", "panicking"}
    /\ wg' = IF wpc[i] = "deferred" THEN wg - 1 ELSE wg
    /\ wpc' = [wpc EXCEPT ![i] = IF wpc[i] = "deferred" THEN "exited" ELSE "dying"]
    /\ UNCHANGED <<otherThanPool, numWorkers, numJobs, faulty, batch, cancelled, jobsCloseCount,
                   pcMain, w, j, jobs, jobsClosed, results, resultsClosed, job,
                   pcCloser, received, claimLog, closeCount, crashed>>

\* defer wg.Done(): runs when the function returns and when it panics
WorkerDone(i) ==
    /\ ~crashed
    /\ wpc[i] \in {"deferred", "panicking"}
    /\ wg' = wg - 1
    /\ wpc' = [wpc EXCEPT ![i] = IF wpc[i] = "deferred" THEN "exited" ELSE "dying"]
    /\ UNCHANGED <<otherThanPool, numWorkers, numJobs, faulty, batch, cancelled, jobsCloseCount,
                   pcMain, w, j, jobs, jobsClosed,
                   results, resultsClosed, job, pcCloser, received, claimLog,
                   closeCount, crashed>>

-----------------------------------------------------------------------------
(* the anonymous goroutine: wg.Wait(); close(results) *)

\* Variant of CloserWait: the goroutine does not wait for the counter.
CloserNoWait ==
    /\ ~crashed
    /\ pcCloser = "wait"
    /\ pcCloser' = "close"
    /\ UNCHANGED <<otherThanPool, numWorkers, numJobs, faulty, batch, cancelled, jobsCloseCount,
                   pcMain, w, j, jobs, jobsClosed,
                   results, resultsClosed, wg, wpc, job, received, claimLog,
                   closeCount, crashed>>

\* Variant of CloserWait: the goroutine waits until every job has a result,
\* not until every worker has returned.
CloserWaitResults ==
    /\ ~crashed
    /\ pcCloser = "wait"
    /\ Len(results) + Len(received) = numJobs
    /\ pcCloser' = "close"
    /\ UNCHANGED <<otherThanPool, numWorkers, numJobs, faulty, batch, cancelled, jobsCloseCount,
                   pcMain, w, j, jobs, jobsClosed,
                   results, resultsClosed, wg, wpc, job, received, claimLog,
                   closeCount, crashed>>

\* wg.Wait() returns when the counter is zero
CloserWait ==
    /\ ~crashed
    /\ pcCloser = "wait"
    /\ wg = 0
    /\ pcCloser' = "close"
    /\ UNCHANGED <<otherThanPool, numWorkers, numJobs, faulty, batch, cancelled, jobsCloseCount,
                   pcMain, w, j, jobs, jobsClosed,
                   results, resultsClosed, wg, wpc, job, received, claimLog,
                   closeCount, crashed>>

\* close(results)   (closing a closed channel panics)
CloserClose ==
    /\ ~crashed
    /\ pcCloser = "close"
    /\ closeCount' = closeCount + 1
    /\ IF resultsClosed
       THEN /\ crashed' = TRUE
            /\ UNCHANGED resultsClosed
       ELSE /\ resultsClosed' = TRUE
            /\ UNCHANGED crashed
    /\ pcCloser' = "exited"
    /\ UNCHANGED <<otherThanPool, numWorkers, numJobs, faulty, batch, cancelled, jobsCloseCount,
                   pcMain, w, j, jobs, jobsClosed,
                   results, wg, wpc, job, received, claimLog>>

-----------------------------------------------------------------------------

Next ==
    \/ WgAdd
    \/ GoWorker
    \/ SendJob
    \/ CloseJobs
    \/ GoCloser
    \/ ConsumeResult
    \/ ConsumeEnd
    \/ \E i \in Workers : WorkerClaim(i)
    \/ \E i \in Workers : WorkerProcess(i)
    \/ \E i \in Workers : WorkerPublish(i)
    \/ \E i \in Workers : WorkerExit(i)
    \/ \E i \in Workers : WorkerDone(i)
    \/ CloserWait
    \/ CloserClose

Spec == Init /\ [][Next]_vars

-----------------------------------------------------------------------------
(* A job whose computation faults.  No computation of the source can fault  *)
(* (job * 2 after a sleep), so Spec starts with faulty = {}.  FaultSpec     *)
(* designates one job of the batch whose computation panics, and follows    *)
(* what the worker as written does with the panic: the deferred wg.Done()   *)
(* runs, and, no recover() being deferred, the runtime ends the process.    *)

InitFault ==
    /\ numWorkers \in 1..MaxWorkers
    /\ numJobs \in 1..MaxJobs
    /\ faulty \in {{x} : x \in Jobs}
    /\ batch = DemoBatch
    /\ InitPool

\* the computation of a faulty job panics inside the for-range body
WorkerFault(i) ==
    /\ ~crashed
    /\ wpc[i] = "work"
    /\ job[i] \in faulty
    /\ wpc' = [wpc EXCEPT ![i] = "panicking"]
    /\ UNCHANGED <<otherThanPool, numWorkers, numJobs, faulty, batch, cancelled, jobsCloseCount,
                   pcMain, w, j, jobs, jobsClosed,
                   results, resultsClosed, wg, job, pcCloser, received,
                   claimLog, closeCount, crashed>>

\* a goroutine's panic that no deferred call recovers terminates the program
ProcessExit ==
    /\ ~crashed
    /\ \E i \in Workers : wpc[i] = "dying"
    /\ crashed' = TRUE
    /\ UNCHANGED <<otherThanPool, numWorkers, numJobs, faulty, batch, cancelled, jobsCloseCount,
                   pcMain, w, j, jobs, jobsClosed,
                   results, resultsClosed, wg, wpc, job, pcCloser, received,
                   claimLog, closeCount>>

NextFault ==
    \/ Next
    \/ \E i \in Workers : WorkerFault(i)
    \/ ProcessExit

FaultSpec == InitFault /\ [][NextFault]_vars

-----------------------------------------------------------------------------
(* An external cancellation signal.  worker takes no context and no stop     *)
(* channel, and demonstrateWorkerPool creates none, so no statement of the   *)
(* pool reads the signal: CancelSpec lets the environment raise it at any    *)
(* moment and runs the pool as written.                                      *)

InitCancel ==
    /\ numWorkers \in 1..MaxWorkers
    /\ numJobs \in 1..MaxJobs
    /\ faulty = {}
    /\ batch = DemoBatch
    /\ InitPool

\* the environment signals cancellation
Cancel ==
    /\ ~crashed
    /\ ~cancelled
    /\ pcMain # "done"
    /\ cancelled' = TRUE
    /\ UNCHANGED <<otherThanPool, numWorkers, numJobs, faulty, batch, jobsCloseCount, pcMain,
                   w, j, jobs, jobsClosed, results, resultsClosed, wg, wpc, job,
                   pcCloser, received, claimLog, closeCount, crashed>>

NextCancel ==
    \/ Next
    \/ Cancel

CancelSpec == InitCancel /\ [][NextCancel]_vars

-----------------------------------------------------------------------------
(* Batches with repeated values.  The source sends 1, 2, ..., numJobs;      *)
(* DupSpec runs the same pool on every batch of numJobs values drawn from   *)
(* 1..numJobs, which includes the batches that repeat a value.              *)

InitDup ==
    /\ numWorkers \in 1..MaxDupWorkers
    /\ numJobs \in 1..MaxJobs
    /\ faulty = {}
    /\ batch \in [Jobs -> Jobs]
    /\ InitPool

DupSpec == InitDup /\ [][Next]_vars

-----------------------------------------------------------------------------
(* Scheduling: the Go scheduler runs every runnable goroutine eventually, and *)
(* time.Sleep returns, so each goroutine's enabled step is eventually taken.  *)

MainStep ==
    \/ WgAdd \/ GoWorker \/ SendJob \/ CloseJobs \/ GoCloser
    \/ ConsumeResult \/ ConsumeEnd

WorkerStep(i) ==
    /\ i \in Workers
    /\ \/ WorkerClaim(i) \/ WorkerProcess(i) \/ WorkerPublish(i)
       \/ WorkerExit(i) \/ WorkerDone(i)

CloserStep == CloserWait \/ CloserClose

Fairness ==
    /\ WF_vars(MainStep)
    /\ \A i \in 1..MaxWorkers : WF_vars(WorkerStep(i))
    /\ WF_vars(CloserStep)

FairSpec == Spec /\ Fairness

-----------------------------------------------------------------------------
(* History read off claimLog and received *)

\* the positions of claimLog at which job x was claimed
JobClaims(x) == {k \in 1..Len(claimLog) : claimLog[k][2] = x}
\* the positions of claimLog at which worker i claimed a job
WorkerClaims(i) == {k \in 1..Len(claimLog) : claimLog[k][1] = i}
\* the positions of received that hold the result of job x
JobResults(x) == {k \in 1..Len(received) : received[k] = Compute(x)}

AllWorkersExited == \A i \in Workers : wpc[i] = "exited"
EndOfData == pcMain = "done"

-----------------------------------------------------------------------------

\* C1: with N >= 1 workers, no job is received from the jobs channel twice (by
\* two workers or twice by one), only submitted jobs are received, and once the
\* results channel has been closed every submitted job has been received by
\* exactly one worker.
C1_EachJobClaimedOnce ==
    numWorkers >= 1 =>
        /\ \A k \in 1..Len(claimLog) : claimLog[k][2] \in Jobs
        /\ \A x \in Jobs : Cardinality(JobClaims(x)) <= 1
        /\ resultsClosed => \A x \in Jobs : Cardinality(JobClaims(x)) = 1

\* C1 witness: the pool has completed a batch of two jobs that two different
\* workers claimed.
C1_Witness ==
    /\ resultsClosed
    /\ numJobs = 2
    /\ \E a, b \in Workers : a # b /\ WorkerClaims(a) # {} /\ WorkerClaims(b) # {}

\* C2: with N >= 1, when the consumer loop has observed end-of-data it has
\* received exactly M results, exactly one for each submitted job.
C2_AllResultsBeforeEnd ==
    (numWorkers >= 1 /\ EndOfData) =>
        /\ Len(received) = numJobs
        /\ \A x \in Jobs : Cardinality(JobResults(x)) = 1

\* C2 witness: the consumer loop has ended after a batch of two jobs run by
\* several workers.
C2_Witness == EndOfData /\ numWorkers >= 2 /\ numJobs = 2 /\ Len(received) = 2

\* C3: whenever the results channel is closed (and already when the closing
\* goroutine is about to close it), every one of the N workers has been
\* started and has returned, so none is running or has a result to publish.
C3_CloseAfterAllWorkersExit ==
    (resultsClosed \/ closeCount > 0 \/ pcCloser \in {"close", "exited"})
        => AllWorkersExited

\* C3 witness: results was closed while the consumer was still in its loop,
\* with two or more workers and a non-empty batch.
C3_Witness ==
    /\ resultsClosed
    /\ pcMain = "rangeResults"
    /\ numWorkers >= 2
    /\ numJobs >= 1

\* C4: close(results) is executed at most once, and exactly once by the time
\* the consumer loop has ended.
C4_CloseExactlyOnce ==
    /\ closeCount <= 1
    /\ ~crashed
    /\ EndOfData => closeCount = 1

\* C4 witness: the pool has completed with several workers and the channel
\* closed once.
C4_Witness == EndOfData /\ closeCount = 1 /\ numWorkers >= 2 /\ numJobs >= 1

\* C5: with N >= 1 and fair scheduling of main, the workers and the closing
\* goroutine, the results channel is eventually closed and the consumer loop
\* eventually ends.
C5_EventuallyEndOfData ==
    (numWorkers >= 1) => <>(resultsClosed /\ EndOfData)

\* C5 witness: a run with several workers and jobs has reached the end of the
\* consumer loop and nothing is left to do.
C5_Witness ==
    /\ EndOfData
    /\ numWorkers >= 2
    /\ numJobs >= 2
    /\ ~ENABLED Next

\* C6: with a worker count N <= 0 no worker is started and the run is not
\* reported as an ordinary end-of-data with fewer than M results: the consumer
\* loop never ends normally having received fewer than M results.
C6_InvalidConfiguration ==
    numWorkers <= 0 =>
        /\ \A i \in DOMAIN wpc : wpc[i] = "unstarted"
        /\ ~(EndOfData /\ Len(received) < numJobs)

\* C7: when the computation of one job faults, the pool is not aborted (the
\* process keeps running, so the other workers are not stopped), and the
\* consumer loop ends only with all M results received.
C7_FaultIsolation ==
    faulty # {} =>
        /\ ~crashed
        /\ EndOfData => Len(received) = numJobs

\* C8: with M = 0 and N >= 1 no worker ever receives a job, nothing is ever
\* published or consumed, results is closed at most once, and when the consumer
\* loop has ended every worker has returned and results was closed once.
C8_EmptyBatch ==
    (numJobs = 0 /\ numWorkers >= 1) =>
        /\ claimLog = <<>>
        /\ results = <<>>
        /\ received = <<>>
        /\ closeCount <= 1
        /\ EndOfData => (AllWorkersExited /\ closeCount = 1 /\ resultsClosed)

\* C8 witness: the consumer loop has ended for an empty batch with two or
\* more workers.
C8_Witness == numJobs = 0 /\ numWorkers >= 2 /\ EndOfData

\* the workers that have returned without ever having received a job
IdleExited == {i \in Workers : WorkerClaims(i) = {} /\ wpc[i] = "exited"}

\* C9: with N > M no goroutine panics; once results is closed all N workers
\* have returned, at least N - M of them without having received a job; and
\* when the consumer loop has ended exactly M results were received, results
\* is closed and all N workers have returned.
C9_MoreWorkersThanJobs ==
    numWorkers > numJobs =>
        /\ ~crashed
        /\ \A i \in Workers : wpc[i] \notin {"panicking", "dying"}
        /\ resultsClosed =>
              /\ AllWorkersExited
              /\ Cardinality(IdleExited) >= numWorkers - numJobs
        /\ EndOfData =>
              /\ Len(received) = numJobs
              /\ resultsClosed
              /\ AllWorkersExited

\* C9 witness: three workers and one job; the pool has completed and two
\* workers returned without a job.
C9_Witness ==
    /\ numWorkers = 3
    /\ numJobs = 1
    /\ EndOfData
    /\ Cardinality(IdleExited) = 2

\* C10: with N = 1 the k-th result the consumer receives is the result of
\* the k-th submitted job.
C10_SingleWorkerKeepsOrder ==
    numWorkers = 1 =>
        \A k \in 1..Len(received) : received[k] = Compute(k)

\* C10 witness: one worker has completed a batch of two jobs and the consumer
\* received both results.
C10_Witness ==
    /\ numWorkers = 1
    /\ numJobs = 2
    /\ EndOfData
    /\ Len(received) = 2

\* the position in the batch of the job whose result is received[k]
ResultJob(k) == CHOOSE x \in Jobs : Compute(batch[x]) = received[k]
\* the worker that received job value x from the jobs channel
ClaimerOf(x) == CHOOSE i \in Workers : \E k \in 1..Len(claimLog) : claimLog[k] = <<i, x>>
\* received[a] precedes received[b] although its job was submitted later
Inverted(a, b) == a < b /\ ResultJob(a) > ResultJob(b)

\* C11: with N >= 2 and M >= 2 submission order does not fix the order of the
\* results: two results can arrive in the opposite order of their jobs
\* (C11_Witness is such a reachable state), and whenever they do, two
\* different workers processed the two jobs.
C11_OrderNotFixed ==
    (numWorkers >= 2 /\ numJobs >= 2) =>
        \A a, b \in 1..Len(received) :
            Inverted(a, b) =>
                ClaimerOf(batch[ResultJob(a)]) # ClaimerOf(batch[ResultJob(b)])

\* C11 witness: the consumer has received the result of job 2 before the
\* result of job 1.
C11_Witness ==
    /\ numWorkers >= 2
    /\ numJobs >= 2
    /\ \E a, b \in 1..Len(received) : Inverted(a, b)

\* the values the consumer has received
ReceivedValues == {received[k] : k \in 1..Len(received)}

\* C12: every value the consumer receives is twice a submitted job, no value
\* is received twice, and when the consumer loop has ended the received values
\* are exactly the even numbers 2, 4, ..., 2*M, each once.
C12_ResultsAreDoubledJobs ==
    numWorkers >= 1 =>
        /\ ReceivedValues \subseteq {2 * x : x \in Jobs}
        /\ Cardinality(ReceivedValues) = Len(received)
        /\ EndOfData => ReceivedValues = {2 * x : x \in Jobs}

\* C12 witness: the consumer loop has ended having received 2 and 4.
C12_Witness ==
    /\ EndOfData
    /\ numJobs = 2
    /\ ReceivedValues = {2, 4}

\* C13: once cancellation has been signalled no worker claims a further job:
\* the jobs unclaimed at that moment are never started.
C13_CancellationStopsClaims ==
    [][cancelled => claimLog' = claimLog]_vars

\* the positions of the batch that hold the value v
Submitted(v) == {x \in Jobs : batch[x] = v}
\* the positions of received that hold the result of the value v
ResultsOf(v) == {k \in 1..Len(received) : received[k] = Compute(v)}

\* C14: a value submitted n times never has more than n results, and when the
\* consumer loop has ended it has exactly n results and M results were
\* received in all: repeated jobs are not merged.
C14_DuplicatesIndependent ==
    /\ \A v \in Jobs : Cardinality(ResultsOf(v)) <= Cardinality(Submitted(v))
    /\ EndOfData =>
          /\ Len(received) = numJobs
          /\ \A v \in Jobs : Cardinality(ResultsOf(v)) = Cardinality(Submitted(v))

\* C14 witness: the batch <<1, 1>> has completed and the consumer received
\* the result 2 twice.
C14_Witness ==
    /\ numJobs = 2
    /\ batch = <<1, 1>>
    /\ EndOfData
    /\ received = <<2, 2>>

\* the workers for which wg.Add(1) has been executed
Registered == {i \in Workers : i < w \/ (i = w /\ pcMain = "goWorker")}
\* the workers whose deferred wg.Done() has run
Returned == {i \in Workers : wpc[i] \in {"exited", "dying"}}

\* C15: the WaitGroup counter is never negative and always equals the number
\* of workers registered by wg.Add(1) whose wg.Done() has not yet run; every
\* started worker was registered before it started.
C15_BarrierCountsLiveWorkers ==
    /\ wg >= 0
    /\ wg = Cardinality(Registered \ Returned)
    /\ \A i \in Workers : wpc[i] # "unstarted" => i \in Registered

\* C15 witness: of three registered workers two have returned and the counter
\* stands at one.
C15_Witness ==
    /\ numWorkers = 3
    /\ Cardinality(Returned) = 2
    /\ wg = 1

\* worker i is at the head of its range loop and finds jobs empty and open
WaitingForJob(i) == wpc[i] = "range" /\ jobs = <<>> /\ ~jobsClosed

\* C16: a worker leaves its range loop only in a step taken with jobs closed
\* and empty; a worker that finds jobs empty and open does not move; and no
\* job is enqueued before every worker has been started.
C16_ExitOnlyWhenClosedAndEmpty ==
    /\ [](j > 1 => \A i \in Workers : wpc[i] # "unstarted")
    /\ [][\A i \in Workers :
            /\ (wpc[i] = "range" /\ wpc'[i] \notin {"range", "work"})
                   => (jobsClosed /\ jobs = <<>>)
            /\ WaitingForJob(i) => wpc'[i] = "range"]_vars

\* C16 witness: a worker that has already processed a job is back at the head
\* of its loop, waiting on the empty, still open jobs channel.
C16_Witness ==
    \E i \in Workers : WaitingForJob(i) /\ WorkerClaims(i) # {}

\* C17: close(jobs) is executed at most once, and exactly once by the time
\* main has passed it; jobs is closed only when all M jobs have been enqueued;
\* and no step taken with jobs closed adds a job to it or panics on a send.
C17_JobsClosedOnceAfterAllSent ==
    /\ [](/\ jobsCloseCount <= 1
          /\ jobsClosed <=> jobsCloseCount = 1
          /\ pcMain \in {"goCloser", "rangeResults", "done"} => jobsCloseCount = 1
          /\ jobsClosed => j = numJobs + 1
          /\ ~crashed)
    /\ [][jobsClosed => (Len(jobs') <= Len(jobs) /\ j' = j)]_vars

\* C17 witness: jobs has been closed, once, after both jobs of a batch of two
\* were enqueued.
C17_Witness ==
    /\ jobsClosed
    /\ jobsCloseCount = 1
    /\ numJobs = 2
    /\ j = 3

\* the workers that have left the function through a panic
Died == {i \in Workers : wpc[i] = "dying"}

C19_NoSendAfterClose ==
    /\ [](\A i \in Workers : wpc[i] \notin {"panicking", "dying"})
    /\ [](resultsClosed => \A i \in Workers : wpc[i] \notin {"work", "publish"})
    /\ [][resultsClosed => Len(results') <= Len(results)]_vars

\* C19 witness: results was closed after two workers had published the two
\* results of the batch, which the consumer has not yet taken.
C19_Witness ==
    /\ resultsClosed
    /\ numWorkers >= 2
    /\ Len(results) = 2
    /\ \E a, b \in Workers : a # b /\ WorkerClaims(a) # {} /\ WorkerClaims(b) # {}

\* the workers that hold a job: received from jobs, result not yet published
Holding == {i \in Workers : wpc[i] \in {"work", "publish"}}

\* C20: the jobs not yet enqueued, the jobs in the jobs channel, the jobs held
\* by workers, the results in the results channel and the results consumed
\* add up to M.
C20_JobConservation ==
    (numJobs - (j - 1)) + Len(jobs) + Cardinality(Holding) + Len(results)
        + Len(received) = numJobs

\* C20 witness: of a batch of two jobs, one is still held by a worker and the
\* result of the other is in the results channel.
C20_Witness ==
    /\ numJobs = 2
    /\ j = 3
    /\ jobs = <<>>
    /\ Cardinality(Holding) = 1
    /\ Len(results) = 1
    /\ received = <<>>

-----------------------------------------------------------------------------
(* The Rust sample's thread-based counter: main creates one                 *)
(* ThreadSafeCounter, spawns numThreads threads that each call increment()  *)
(* numIncrements times on a clone (the same Arc<Mutex<i32>>), joins them    *)
(* all and prints get_value().  "*count += 1" is a read followed by a       *)
(* write, both made through the MutexGuard.                                 *)

InitCounter ==
    /\ \E T \in 0..MaxThreads, K \in 0..MaxIncrements : InitCounterOf(T, K)
    /\ PoolIdle
    /\ GoIdle

\* Where main continues after n handles have been joined.
AfterJoinLoop(n) == IF n < numThreads THEN "join" ELSE "get"
\* Where main continues after n threads have been spawned.
AfterSpawnLoop(n) == IF n < numThreads THEN "spawn" ELSE AfterJoinLoop(0)
\* Where a thread continues after n iterations of "for _ in 0..10".
AfterIncrement(n) == IF n < numIncrements THEN "lock" ELSE "finished"

\* let counter_clone = counter.clone(); thread::spawn(..); handles.push(handle)
SpawnThread ==
    /\ rpc = "spawn"
    /\ tpc' = [tpc EXCEPT ![spawned + 1] = AfterIncrement(0)]
    /\ spawned' = spawned + 1
    /\ rpc' = AfterSpawnLoop(spawned + 1)
    /\ UNCHANGED <<otherThanCounter, numThreads, numIncrements, value, lockedBy,
                   iter, count, joined, finalValue>>

\* handle.join().unwrap(): returns once the thread has finished
JoinThread ==
    /\ rpc = "join"
    /\ tpc[joined + 1] = "finished"
    /\ joined' = joined + 1
    /\ rpc' = AfterJoinLoop(joined + 1)
    /\ UNCHANGED <<otherThanCounter, numThreads, numIncrements, value, lockedBy,
                   tpc, iter, count, spawned, finalValue>>

\* counter.get_value(): *self.value.lock().unwrap(); the temporary guard is
\* dropped at the end of the expression
GetValue ==
    /\ rpc = "get"
    /\ lockedBy = 0
    /\ finalValue' = value
    /\ rpc' = "done"
    /\ UNCHANGED <<otherThanCounter, numThreads, numIncrements, value, lockedBy,
                   tpc, iter, count, spawned, joined>>

\* Variant of IncrementLock: the thread goes on without acquiring the mutex.
IncrementLockSkipped(t) ==
    /\ tpc[t] = "lock"
    /\ tpc' = [tpc EXCEPT ![t] = "load"]
    /\ UNCHANGED <<otherThanCounter, numThreads, numIncrements, value, lockedBy,
                   iter, count, rpc, spawned, joined, finalValue>>

\* let mut count = self.value.lock().unwrap(): blocks while the mutex is held
IncrementLock(t) ==
    /\ tpc[t] = "lock"
    /\ lockedBy = 0
    /\ lockedBy' = t
    /\ tpc' = [tpc EXCEPT ![t] = "load"]
    /\ UNCHANGED <<otherThanCounter, numThreads, numIncrements, value,
                   iter, count, rpc, spawned, joined, finalValue>>

\* *count += 1, the read
IncrementLoad(t) ==
    /\ tpc[t] = "load"
    /\ count' = [count EXCEPT ![t] = value]
    /\ tpc' = [tpc EXCEPT ![t] = "store"]
    /\ UNCHANGED <<otherThanCounter, numThreads, numIncrements, value, lockedBy,
                   iter, rpc, spawned, joined, finalValue>>

\* *count += 1, the write; increment() returns and drops the guard
IncrementStore(t) ==
    /\ tpc[t] = "store"
    /\ value' = count[t] + 1
    /\ lockedBy' = IF lockedBy = t THEN 0 ELSE lockedBy
    /\ iter' = [iter EXCEPT ![t] = iter[t] + 1]
    /\ tpc' = [tpc EXCEPT ![t] = AfterIncrement(iter[t] + 1)]
    /\ UNCHANGED <<otherThanCounter, numThreads, numIncrements, count,
                   rpc, spawned, joined, finalValue>>

NextCounter ==
    \/ SpawnThread
    \/ JoinThread
    \/ GetValue
    \/ \E t \in Threads : IncrementLock(t)
    \/ \E t \in Threads : IncrementLoad(t)
    \/ \E t \in Threads : IncrementStore(t)

CounterSpec == InitCounter /\ [][NextCounter]_vars

\* Number of increment() calls that have returned, over threads 1..n.
RECURSIVE Increments(_)
Increments(n) == IF n = 0 THEN 0 ELSE iter[n] + Increments(n - 1)

-----------------------------------------------------------------------------
(* The Go sample's main goroutine from its first demonstration call to the  *)
(* completion message, with demonstrateSelect, demonstrateDefer and         *)
(* demonstratePanicRecover modelled statement by statement; the other       *)
(* demonstrations are calls that return.  Time is counted in milliseconds:  *)
(* a time.Sleep returns and a time.After channel becomes ready when their   *)
(* duration has elapsed, statements take no time, and time passes only      *)
(* while main waits in the select or is between two demonstrations.  The    *)
(* source sleeps 100 and 200 ms and times out after 300 ms; the model takes *)
(* the three durations as values chosen at Init among these.                *)

Durations == {Sleep1Ms, Sleep2Ms, TimeoutMs}

InitGo ==
    /\ \E S \in [Senders -> Durations], T \in Durations : InitGoOf(S, T)
    /\ PoolIdle
    /\ CounterIdle

\* The calls of main, in order.
Demonstrations ==
    <<"demonstrateChannels", "demonstrateSelect", "demonstrateContext",
      "demonstrateDefer", "demonstratePanicRecover", "demonstrateSlicesAndMaps",
      "demonstratePointers", "demonstrateWorkerPool", "demonstrateInterfaces",
      "demonstrateVariadicFunctions", "demonstrateClosures">>

\* The function whose statements are being executed.
Running ==
    IF mainAt \in DOMAIN Demonstrations THEN Demonstrations[mainAt] ELSE "main"

\* The first fmt.Println of each modelled demonstration, and the statement
\* that follows it.
Header ==
    [demonstrateSelect |-> "=== SELECT STATEMENT DEMONSTRATION ===",
     demonstrateDefer |-> "=== DEFER DEMONSTRATION ===",
     demonstratePanicRecover |-> "=== PANIC AND RECOVER DEMONSTRATION ==="]
Entry ==
    [demonstrateSelect |-> "goSender1",
     demonstrateDefer |-> "deferFirst",
     demonstratePanicRecover |-> "deferHandler"]

\* Standard output after the running function has printed the given lines.
Write(lines) ==
    out \o [k \in 1..Len(lines) |-> [by |-> Running, line |-> lines[k]]]

\* Variant of PushDefer: deferred calls are kept in a queue.
PushDeferBack(stack, d) == Append(stack, d)

\* defer: the call is put on top of the function's stack of deferred calls.
PushDefer(stack, d) == <<d>> \o stack

\* The defer statements whose call and arguments are fixed in the text.
DeferStmts ==
    [deferFirst |->
        [call |-> [fn |-> "Println", text |-> "First defer", val |-> 0],
         next |-> "deferSecond"],
     deferSecond |->
        [call |-> [fn |-> "Println", text |-> "Second defer", val |-> 0],
         next |-> "deferThird"],
     deferThird |->
        [call |-> [fn |-> "Println", text |-> "Third defer", val |-> 0],
         next |-> "regular"],
     deferCleanup |->
        [call |-> [fn |-> "cleanup", text |-> "", val |-> 0],
         next |-> "caption"],
     deferHandler |->
        [call |-> [fn |-> "handler", text |-> "", val |-> 0],
         next |-> "about"]]

\* The fmt.Println statements of the function bodies.
PrintStmts ==
    [regular |-> [line |-> "Regular statement", next |-> "assignFile"],
     caption |-> [line |-> "Defer in loop (potential issue):", next |-> "deferFor"],
     about |-> [line |-> "About to panic...", next |-> "panic"],
     afterPanic |-> [line |-> "This won't be printed", next |-> "return"]]

\* What a deferred call other than the recover handler prints when it runs:
\* Println prints its argument evaluated at the defer statement, the cleanup
\* closure reads the variable file, the loop's closure prints its parameter.
DeferredLine(d) ==
    CASE d.fn = "Println" -> d.text
      [] d.fn = "cleanup" -> "Cleaning up " \o file
      [] d.fn = "value" -> "Deferred value: " \o ToString(d.val)

\* The value sent by sender goroutine k.
Message(k) == IF k = 1 THEN "from ch1" ELSE "from ch2"

\* Where a function continues after its loop variable has become n.
SelectLoop(n) == IF n < SelectRounds THEN "select" ELSE "return"
DeferLoop(n) == IF n < DeferLoopCount THEN "deferValue" ELSE "return"

\* The process is running: no unrecovered panic, main has not returned.
Alive == ~aborted /\ mainAt <= Len(Demonstrations) + 1

\* main calls a demonstration that is not modelled; it returns.
CallOther ==
    /\ Alive
    /\ fpc = "call"
    /\ mainAt \in DOMAIN Demonstrations
    /\ Demonstrations[mainAt] \notin DOMAIN Entry
    /\ mainAt' = mainAt + 1
    /\ UNCHANGED <<otherThanGo, fpc, out, deferred, loopI, file, panicking,
                   aborted, now, sleepMs, timeoutMs, spc, wake, timerAt>>

\* main calls a modelled demonstration, which prints its header.
Call ==
    /\ Alive
    /\ fpc = "call"
    /\ mainAt \in DOMAIN Demonstrations
    /\ Demonstrations[mainAt] \in DOMAIN Entry
    /\ out' = Write(<<"", Header[Demonstrations[mainAt]]>>)
    /\ fpc' = Entry[Demonstrations[mainAt]]
    /\ UNCHANGED <<otherThanGo, mainAt, deferred, loopI, file, panicking,
                   aborted, now, sleepMs, timeoutMs, spc, wake, timerAt>>

\* fmt.Println("\n=== PROGRAM COMPLETED ==="), and main returns
Completed ==
    /\ Alive
    /\ fpc = "call"
    /\ mainAt = Len(Demonstrations) + 1
    /\ out' = Write(<<"", "=== PROGRAM COMPLETED ===">>)
    /\ mainAt' = mainAt + 1
    /\ UNCHANGED <<otherThanGo, fpc, deferred, loopI, file, panicking,
                   aborted, now, sleepMs, timeoutMs, spc, wake, timerAt>>

\* go func() { time.Sleep(..); ch <- .. }(): sender k starts its sleep
GoSender(k) ==
    /\ Alive
    /\ fpc = IF k = 1 THEN "goSender1" ELSE "goSender2"
    /\ spc' = [spc EXCEPT ![k] = "sleeping"]
    /\ wake' = [wake EXCEPT ![k] = now + sleepMs[k]]
    /\ fpc' = IF k = 1 THEN "goSender2" ELSE "selectFor"
    /\ UNCHANGED <<otherThanGo, mainAt, out, deferred, loopI, file,
                   panicking, aborted, now, sleepMs, timeoutMs, timerAt>>

\* time.Sleep returns; the sender blocks in its send on the unbuffered channel
SenderWake(k) ==
    /\ Alive
    /\ spc[k] = "sleeping"
    /\ now >= wake[k]
    /\ spc' = [spc EXCEPT ![k] = "sending"]
    /\ UNCHANGED <<otherThanGo, mainAt, fpc, out, deferred, loopI, file,
                   panicking, aborted, now, sleepMs, timeoutMs, wake,
                   timerAt>>

\* for i := 0; ...
LoopInit ==
    /\ Alive
    /\ fpc \in {"selectFor", "deferFor"}
    /\ loopI' = 0
    /\ fpc' = IF fpc = "selectFor" THEN SelectLoop(0) ELSE DeferLoop(0)
    /\ UNCHANGED <<otherThanGo, mainAt, out, deferred, file, panicking,
                   aborted, now, sleepMs, timeoutMs, spc, wake, timerAt>>

\* Variant of SelectEnter: the duration is 300 microseconds, which is no
\* whole millisecond.
SelectEnterMicroseconds ==
    /\ Alive
    /\ fpc = "select"
    /\ timerAt' = now + (timeoutMs \div 1000)
    /\ fpc' = "selectWait"
    /\ UNCHANGED <<otherThanGo, mainAt, out, deferred, loopI, file,
                   panicking, aborted, now, sleepMs, timeoutMs, spc, wake>>

\* select { ... case <-time.After(300 * time.Millisecond): the timer starts
\* when the select statement is entered
SelectEnter ==
    /\ Alive
    /\ fpc = "select"
    /\ timerAt' = now + timeoutMs
    /\ fpc' = "selectWait"
    /\ UNCHANGED <<otherThanGo, mainAt, out, deferred, loopI, file,
                   panicking, aborted, now, sleepMs, timeoutMs, spc, wake>>

\* case msg := <-ch: the blocked sender k hands over its value
SelectReceive(k) ==
    /\ Alive
    /\ fpc = "selectWait"
    /\ spc[k] = "sending"
    /\ out' = Write(<<"Received " \o Message(k)>>)
    /\ spc' = [spc EXCEPT ![k] = "done"]
    /\ loopI' = loopI + 1
    /\ fpc' = SelectLoop(loopI + 1)
    /\ UNCHANGED <<otherThanGo, mainAt, deferred, file, panicking, aborted,
                   now, sleepMs, timeoutMs, wake, timerAt>>

\* case <-time.After(..): fmt.Println("Timeout!")
SelectTimeout ==
    /\ Alive
    /\ fpc = "selectWait"
    /\ now >= timerAt
    /\ out' = Write(<<"Timeout!">>)
    /\ loopI' = loopI + 1
    /\ fpc' = SelectLoop(loopI + 1)
    /\ UNCHANGED <<otherThanGo, mainAt, deferred, file, panicking, aborted,
                   now, sleepMs, timeoutMs, spc, wake, timerAt>>

\* The instants at which a sleeping sender or the select's timer is due.
Pending ==
    {wake[k] : k \in {s \in Senders : spc[s] = "sleeping"}}
        \cup (IF fpc = "selectWait" THEN {timerAt} ELSE {})

\* Time passes up to the next due instant, while main is blocked in the
\* select with no case ready or is between two demonstrations.
Advance ==
    /\ Alive
    /\ fpc \in {"selectWait", "call"}
    /\ fpc = "selectWait" => \A k \in Senders : spc[k] # "sending"
    /\ Pending # {}
    /\ \A d \in Pending : d > now
    /\ now' = CHOOSE d \in Pending : \A e \in Pending : d <= e
    /\ UNCHANGED <<otherThanGo, mainAt, fpc, out, deferred, loopI, file,
                   panicking, aborted, sleepMs, timeoutMs, spc, wake,
                   timerAt>>

\* defer fmt.Println(..), defer func() {..}()
DeferCall ==
    /\ Alive
    /\ fpc \in DOMAIN DeferStmts
    /\ deferred' = PushDefer(deferred, DeferStmts[fpc].call)
    /\ fpc' = DeferStmts[fpc].next
    /\ UNCHANGED <<otherThanGo, mainAt, out, loopI, file, panicking, aborted,
                   now, sleepMs, timeoutMs, spc, wake, timerAt>>

\* fmt.Println(..)
FmtPrintln ==
    /\ Alive
    /\ fpc \in DOMAIN PrintStmts
    /\ out' = Write(<<PrintStmts[fpc].line>>)
    /\ fpc' = PrintStmts[fpc].next
    /\ UNCHANGED <<otherThanGo, mainAt, deferred, loopI, file, panicking,
                   aborted, now, sleepMs, timeoutMs, spc, wake, timerAt>>

\* file := "example.txt"
AssignFile ==
    /\ Alive
    /\ fpc = "assignFile"
    /\ file' = "example.txt"
    /\ fpc' = "deferCleanup"
    /\ UNCHANGED <<otherThanGo, mainAt, out, deferred, loopI, panicking,
                   aborted, now, sleepMs, timeoutMs, spc, wake, timerAt>>

\* defer func(val int) {..}(i); i++: the argument is evaluated now
DeferValue ==
    /\ Alive
    /\ fpc = "deferValue"
    /\ deferred' = PushDefer(deferred, [fn |-> "value", text |-> "", val |-> loopI])
    /\ loopI' = loopI + 1
    /\ fpc' = DeferLoop(loopI + 1)
    /\ UNCHANGED <<otherThanGo, mainAt, out, file, panicking, aborted, now,
                   sleepMs, timeoutMs, spc, wake, timerAt>>

\* panic("Something went wrong!"): the function stops and its deferred calls run
Panic ==
    /\ Alive
    /\ fpc = "panic"
    /\ panicking' = "Something went wrong!"
    /\ fpc' = "return"
    /\ UNCHANGED <<otherThanGo, mainAt, out, deferred, loopI, file, aborted,
                   now, sleepMs, timeoutMs, spc, wake, timerAt>>

\* The function is returning or panicking: its last deferred call runs.
RunDeferred ==
    /\ Alive
    /\ fpc = "return"
    /\ deferred # <<>>
    /\ Head(deferred).fn # "handler"
    /\ out' = Write(<<DeferredLine(Head(deferred))>>)
    /\ deferred' = Tail(deferred)
    /\ UNCHANGED <<otherThanGo, mainAt, fpc, loopI, file, panicking, aborted,
                   now, sleepMs, timeoutMs, spc, wake, timerAt>>

\* Variant of RunHandler: the deferred function does not call recover().
RunHandlerWithoutRecover ==
    /\ Alive
    /\ fpc = "return"
    /\ deferred # <<>>
    /\ Head(deferred).fn = "handler"
    /\ deferred' = Tail(deferred)
    /\ UNCHANGED <<otherThanGo, mainAt, fpc, out, loopI, file, panicking,
                   aborted, now, sleepMs, timeoutMs, spc, wake, timerAt>>

\* The deferred func() { if r := recover(); r != nil { Printf(..) } }() runs:
\* recover() returns the panic value and stops the panic.
RunHandler ==
    /\ Alive
    /\ fpc = "return"
    /\ deferred # <<>>
    /\ Head(deferred).fn = "handler"
    /\ IF panicking # NoPanic
       THEN /\ out' = Write(<<"Recovered from panic: " \o panicking>>)
            /\ panicking' = NoPanic
       ELSE UNCHANGED <<out, panicking>>
    /\ deferred' = Tail(deferred)
    /\ UNCHANGED <<otherThanGo, mainAt, fpc, loopI, file, aborted, now,
                   sleepMs, timeoutMs, spc, wake, timerAt>>

\* No deferred call is left: the function returns to main, or the panic that
\* nothing recovered terminates the process.
Return ==
    /\ Alive
    /\ fpc = "return"
    /\ deferred = <<>>
    /\ IF panicking # NoPanic
       THEN /\ aborted' = TRUE
            /\ UNCHANGED <<mainAt, fpc>>
       ELSE /\ mainAt' = mainAt + 1
            /\ fpc' = "call"
            /\ UNCHANGED aborted
    /\ UNCHANGED <<otherThanGo, out, deferred, loopI, file, panicking, now,
                   sleepMs, timeoutMs, spc, wake, timerAt>>

NextGo ==
    \/ CallOther
    \/ Call
    \/ Completed
    \/ \E k \in Senders : GoSender(k)
    \/ \E k \in Senders : SenderWake(k)
    \/ LoopInit
    \/ SelectEnter
    \/ \E k \in Senders : SelectReceive(k)
    \/ SelectTimeout
    \/ Advance
    \/ DeferCall
    \/ FmtPrintln
    \/ AssignFile
    \/ DeferValue
    \/ Panic
    \/ RunDeferred
    \/ RunHandler
    \/ Return

GoSpec == InitGo /\ [][NextGo]_vars

\* The Go runtime keeps running main and every runnable goroutine, and time
\* passes.
GoFairSpec == GoSpec /\ WF_vars(NextGo)

\* The lines printed by function f, in order.
OutputOf(f) ==
    LET mine == SelectSeq(out, LAMBDA e : e.by = f)
    IN  [k \in 1..Len(mine) |-> mine[k].line]

\* main has returned from its call of function f.
ReturnedFrom(f) ==
    \E k \in DOMAIN Demonstrations : Demonstrations[k] = f /\ mainAt > k

\* The durations are the ones written in the source.
SourceDurations ==
    /\ sleepMs = <<Sleep1Ms, Sleep2Ms>>
    /\ timeoutMs = TimeoutMs

\* C26: the counter always equals the number of increment() calls that have
\* returned, and once every thread has been joined get_value() returns
\* numThreads * numIncrements.
C26_NoLostUpdate ==
    /\ lockedBy = 0 => value = Increments(numThreads)
    /\ rpc = "done" => finalValue = numThreads * numIncrements

\* C26 witness: three threads of two increments each were joined and
\* get_value() returned 6.
C26_Witness ==
    /\ rpc = "done"
    /\ numThreads = 3
    /\ numIncrements = 2
    /\ finalValue = 6

\* C21: neither channel ever holds more than M values; whenever main is at
\* the send of a job the jobs channel has a free slot, and whenever a worker
\* is at the send of its result the results channel has a free slot, so
\* neither send blocks.
C21_CapacityNeverBlocks ==
    /\ Len(jobs) <= numJobs
    /\ Len(results) <= numJobs
    /\ pcMain = "sendJob" => Len(jobs) < ChanCap
    /\ \A i \in Workers : wpc[i] = "publish" => Len(results) < ChanCap

\* C21 witness: both results of a batch of two sit in the results channel
\* before main has even started the consumer loop.
C21_Witness ==
    /\ numJobs = 2
    /\ Len(results) = 2
    /\ pcMain \in {"closeJobs", "goCloser"}

\* C22: the closing goroutine exists only once all N workers have been
\* registered, and with N >= 1 it never finds the counter at zero while some
\* worker has not returned.
C22_WaitAfterAllRegistered ==
    /\ pcCloser # "unstarted" => Registered = Workers
    /\ (numWorkers >= 1 /\ pcCloser = "wait" /\ wg = 0) => AllWorkersExited

\* C22 witness: the closing goroutine is blocked in wg.Wait() with all three
\* workers registered and still running.
C22_Witness ==
    /\ numWorkers = 3
    /\ pcCloser = "wait"
    /\ wg = 3

\* C23: jobs are received from the jobs channel in the order in which they
\* were sent: the k-th receive, by whichever worker, takes the k-th job.
C23_ClaimsInSubmissionOrder ==
    \A k \in 1..Len(claimLog) : claimLog[k][2] = batch[k]

\* C23 witness: two different workers have received jobs 1 and 2, in that
\* order.
C23_Witness ==
    /\ Len(claimLog) = 2
    /\ claimLog[1][1] # claimLog[2][1]

\* C24: the jobs received and not yet published are exactly the jobs held by
\* workers, one per worker at most, so they never number more than N.
C24_AtMostOneJobPerWorker ==
    numWorkers >= 1 =>
        /\ Len(claimLog) - (Len(results) + Len(received)) = Cardinality(Holding)
        /\ Cardinality(Holding) <= numWorkers

\* C24 witness: a single worker has published the result of job 1 and holds
\* job 2.
C24_Witness ==
    /\ numWorkers = 1
    /\ Len(claimLog) = 2
    /\ Cardinality(Holding) = 1

\* C25: with N >= 1, when the consumer loop has ended every worker and the
\* closing goroutine have returned, the counter is zero, and both channels
\* are closed and empty.
C25_NothingLeftAtReturn ==
    (numWorkers >= 1 /\ EndOfData) =>
        /\ AllWorkersExited
        /\ pcCloser = "exited"
        /\ wg = 0
        /\ jobsClosed /\ jobs = <<>>
        /\ resultsClosed /\ results = <<>>

\* C25 witness: demonstrateWorkerPool has returned after three workers ran a
\* batch of two jobs.
C25_Witness == EndOfData /\ numWorkers = 3 /\ numJobs = 2

\* C27: when demonstrateDefer has returned it has printed its header,
\* 'Regular statement' and the loop's caption, and after them the deferred
\* calls in reverse order of their defer statements: the loop's values 2, 1,
\* 0, the cleanup of example.txt, then 'Third defer', 'Second defer',
\* 'First defer'.
C27_DeferredRunLastInFirstOut ==
    ReturnedFrom("demonstrateDefer") =>
        OutputOf("demonstrateDefer") =
            <<"", "=== DEFER DEMONSTRATION ===",
              "Regular statement",
              "Defer in loop (potential issue):",
              "Deferred value: 2", "Deferred value: 1", "Deferred value: 0",
              "Cleaning up example.txt",
              "Third defer", "Second defer", "First defer">>

\* C27 witness: demonstrateDefer has just returned, its last line printed
\* being 'First defer'.
C27_Witness ==
    /\ Running = "demonstratePanicRecover"
    /\ fpc = "call"
    /\ out[Len(out)].line = "First defer"

\* C28: the process is never terminated by a panic and the statement after
\* panic() never prints; when demonstratePanicRecover has returned, its
\* handler has printed the panic value and no panic is in progress; and main
\* eventually prints the completion message.
C28_PanicAlwaysRecovered ==
    /\ [](/\ ~aborted
          /\ \A k \in DOMAIN out : out[k].line # "This won't be printed"
          /\ ReturnedFrom("demonstratePanicRecover") =>
                /\ panicking = NoPanic
                /\ OutputOf("demonstratePanicRecover") =
                      <<"", "=== PANIC AND RECOVER DEMONSTRATION ===",
                        "About to panic...",
                        "Recovered from panic: Something went wrong!">>)
    /\ <>(/\ out # <<>>
          /\ out[Len(out)] = [by |-> "main", line |-> "=== PROGRAM COMPLETED ==="])

\* C28 witness: main has printed the completion message after the handler
\* of demonstratePanicRecover recovered the panic.
C28_Witness ==
    /\ mainAt = Len(Demonstrations) + 2
    /\ \E k \in DOMAIN out :
          out[k].line = "Recovered from panic: Something went wrong!"

\* C29: with the durations of the source the timeout branch is never taken,
\* and when demonstrateSelect has returned it has received in two rounds
\* 'from ch1' and then 'from ch2', each once, and both senders have
\* completed their send.
C29_SelectReceivesBothInOrder ==
    SourceDurations =>
        /\ \A k \in DOMAIN out : out[k].line # "Timeout!"
        /\ ReturnedFrom("demonstrateSelect") =>
              /\ OutputOf("demonstrateSelect") =
                    <<"", "=== SELECT STATEMENT DEMONSTRATION ===",
                      "Received from ch1", "Received from ch2">>
              /\ \A k \in Senders : spc[k] = "done"

\* C29 witness: with the durations of the source demonstrateSelect has just
\* returned, 200 ms after main started.
C29_Witness ==
    /\ SourceDurations
    /\ Running = "demonstrateContext"
    /\ fpc = "call"
    /\ now = 200
    /\ out[Len(out)].line = "Received from ch2"

====
